---- MODULE Spec2Model ----
(***************************************************************************)
(* Reolink parent entity classes (homeassistant/components/reolink/        *)
(* entity.py): identity derivation in the constructors, the availability   *)
(* property, and the attach / remove hooks that keep the device handle's    *)
(* update-command subscriptions in step with the entities that exist.       *)
(***************************************************************************)
EXTENDS Integers, Sequences, FiniteSets, TLC

VARIABLES host, coordinator, entities, available_read

vars == <<host, coordinator, entities, available_read>>

(***************************************************************************)
(* Bounds of the model.                                                    *)
(***************************************************************************)
NumEntities == 2
MaxChannel == 1

Slots == 1..NumEntities
Channels == 0..MaxChannel

(***************************************************************************)
(* Python's None and an optional value.  An optional is None or a          *)
(* one-element tuple holding the value, so that None is never equal to a   *)
(* real string or a real channel index.                                    *)
(***************************************************************************)
None == <<>>
Some(x) == <<x>>

(***************************************************************************)
(* Text.  str(n) for a non-negative integer, as an f-string renders it.    *)
(***************************************************************************)
Digit(d) ==
    CASE d = 0 -> "0" [] d = 1 -> "1" [] d = 2 -> "2" [] d = 3 -> "3"
      [] d = 4 -> "4" [] d = 5 -> "5" [] d = 6 -> "6" [] d = 7 -> "7"
      [] d = 8 -> "8" [] d = 9 -> "9"

RECURSIVE str(_)
str(n) == IF n < 10 THEN Digit(n) ELSE str(n \div 10) \o Digit(n % 10)

(***************************************************************************)
(* Imported names.                                                         *)
(***************************************************************************)
DOMAIN_ == "reolink"
CONNECTION_NETWORK_MAC == "mac"
DUAL_LENS_MODELS == {"Reolink Duo PoE", "Reolink TrackMix PoE"}

Models == DUAL_LENS_MODELS \cup {"RLN8-410"}

(***************************************************************************)
(* Descriptors: the display key and the optional command key.              *)
(* A key is any str; the sample holds plain keys and keys that start with  *)
(* a number and an underscore.                                             *)
(***************************************************************************)
Keys == {"record", "0_record", "1_record"}
CmdKeys == {"GetRec", "GetEnc"}

ReolinkHostEntityDescription(key, cmd_key) == [key |-> key, cmd_key |-> cmd_key]
ReolinkChannelEntityDescription(key, cmd_key) == [key |-> key, cmd_key |-> cmd_key]

(***************************************************************************)
(* The device handle (reolink_data.host) and the coordinator.              *)
(* update_cmd is the handle's interest set: a count per (cmd, channel),    *)
(* channel None for a host-scoped command.                                 *)
(***************************************************************************)
Scopes == {None} \cup {Some(ch) : ch \in Channels}

Host(model, is_nvr) ==
    [unique_id |-> "ec71db112233",
     api |-> [use_https |-> TRUE,
              host |-> "192.168.1.20",
              port |-> 443,
              mac_address |-> "ec:71:db:11:22:33",
              nvr_name |-> "Backyard",
              model |-> model,
              manufacturer |-> "Reolink",
              hardware_version |-> "H3MB18",
              sw_version |-> "v3.3.0",
              uid |-> "95270000ABCDEFGH",
              is_nvr |-> is_nvr,
              session_active |-> TRUE,
              camera_name |-> [ch \in Channels |-> "Cam" \o str(ch)],
              camera_model |-> [ch \in Channels |-> "RLC-" \o str(ch)],
              camera_sw_version |-> [ch \in Channels |-> "v1." \o str(ch)]],
     update_cmd |-> [p \in CmdKeys \X Scopes |-> 0]]

CoordinatorState == [last_update_success |-> TRUE]

(***************************************************************************)
(* Constructors.  An entity is a record of the attributes the constructors *)
(* set, plus its place in the attach / remove lifecycle (state) and the    *)
(* calls its hooks have made in that lifecycle (calls).                    *)
(***************************************************************************)
ReolinkBaseCoordinatorEntity_init(h) ==
    LET http_s == IF h.api.use_https THEN "https" ELSE "http"
        conf_url == http_s \o "://" \o h.api.host \o ":" \o str(h.api.port)
    IN [_conf_url |-> conf_url,
        _attr_device_info |->
            [identifiers |-> {<<DOMAIN_, h.unique_id>>},
             connections |-> {<<CONNECTION_NETWORK_MAC, h.api.mac_address>>},
             name |-> h.api.nvr_name,
             model |-> h.api.model,
             manufacturer |-> h.api.manufacturer,
             hw_version |-> h.api.hardware_version,
             sw_version |-> h.api.sw_version,
             serial_number |-> h.api.uid,
             configuration_url |-> conf_url]]

ReolinkHostCoordinatorEntity_init(h, entity_description) ==
    [cls |-> "ReolinkHostCoordinatorEntity",
     entity_description |-> entity_description,
     _channel |-> None,
     _attr_unique_id |-> h.unique_id \o "_" \o entity_description.key]
        @@ ReolinkBaseCoordinatorEntity_init(h)

\* Faulty variant of dev_ch: no dual-lens folding.
dev_ch_unfolded(h, channel) == channel

dev_ch(h, channel) == IF h.api.model \in DUAL_LENS_MODELS THEN 0 ELSE channel

\* Faulty variant of ChannelDeviceInfo: the identifier is not namespaced by
\* the channel.
ChannelDeviceInfo_flat(h, conf_url, ch) ==
    [identifiers |-> {<<DOMAIN_, h.unique_id \o "_ch">>},
     via_device |-> <<DOMAIN_, h.unique_id>>,
     name |-> h.api.camera_name[ch],
     model |-> h.api.camera_model[ch],
     manufacturer |-> h.api.manufacturer,
     sw_version |-> h.api.camera_sw_version[ch],
     configuration_url |-> conf_url]

ChannelDeviceInfo(h, conf_url, ch) ==
    [identifiers |-> {<<DOMAIN_, h.unique_id \o "_ch" \o str(ch)>>},
     via_device |-> <<DOMAIN_, h.unique_id>>,
     name |-> h.api.camera_name[ch],
     model |-> h.api.camera_model[ch],
     manufacturer |-> h.api.manufacturer,
     sw_version |-> h.api.camera_sw_version[ch],
     configuration_url |-> conf_url]

\* Faulty variant of the channel constructor: the is_nvr test is dropped.
ReolinkChannelCoordinatorEntity_init_always_nvr(h, entity_description, channel) ==
    LET super == ReolinkHostCoordinatorEntity_init(h, entity_description)
    IN [super EXCEPT
            !.cls = "ReolinkChannelCoordinatorEntity",
            !._channel = Some(channel),
            !._attr_unique_id =
                h.unique_id \o "_" \o str(channel) \o "_" \o entity_description.key,
            !._attr_device_info =
                ChannelDeviceInfo(h, super._conf_url, dev_ch(h, channel))]

ReolinkChannelCoordinatorEntity_init(h, entity_description, channel) ==
    LET super == ReolinkHostCoordinatorEntity_init(h, entity_description)
    IN [super EXCEPT
            !.cls = "ReolinkChannelCoordinatorEntity",
            !._channel = Some(channel),
            !._attr_unique_id =
                h.unique_id \o "_" \o str(channel) \o "_" \o entity_description.key,
            !._attr_device_info =
                IF h.api.is_nvr
                THEN ChannelDeviceInfo(h, super._conf_url, dev_ch(h, channel))
                ELSE @]

(***************************************************************************)
(* The availability property.                                              *)
(***************************************************************************)
CoordinatorEntity_available(c) == c.last_update_success

\* Faulty variant of available: the coordinator is not consulted.
available_session_only(self, h, c) == h.api.session_active

available(self, h, c) == h.api.session_active /\ CoordinatorEntity_available(c)

(***************************************************************************)
(* The lifecycle hooks.  A hook works on s = [host, calls]: the device     *)
(* handle it calls into, and the entity's record of the calls made, in     *)
(* order.  A call is [op, cmd, channel]; the parent hooks take no command. *)
(* The event loop runs one hook at a time, and the parent hooks do not     *)
(* touch the device handle, so a hook is one step.                         *)
(***************************************************************************)
Value(opt) == opt[1]

Call(s, op, cmd, channel) ==
    [s EXCEPT !.calls = Append(@, [op |-> op, cmd |-> cmd, channel |-> channel])]

async_register_update_cmd(s, cmd, channel) ==
    [Call(s, "register", Some(cmd), channel)
        EXCEPT !.host.update_cmd[<<cmd, channel>>] = @ + 1]

async_unregister_update_cmd(s, cmd, channel) ==
    [Call(s, "unregister", Some(cmd), channel)
        EXCEPT !.host.update_cmd[<<cmd, channel>>] = @ - 1]

CoordinatorEntity_async_added_to_hass(self, s) ==
    Call(s, "super_added", None, None)

CoordinatorEntity_async_will_remove_from_hass(self, s) ==
    Call(s, "super_removed", None, None)

\* Faulty variant of the host attach hook: the command is not registered.
Host_async_added_to_hass_silent(self, s) ==
    CoordinatorEntity_async_added_to_hass(self, s)

Host_async_added_to_hass(self, s) ==
    LET s1 == CoordinatorEntity_async_added_to_hass(self, s)
        cmd_key == self.entity_description.cmd_key
    IN IF cmd_key # None
       THEN async_register_update_cmd(s1, Value(cmd_key), None)
       ELSE s1

\* Faulty variant of the host remove hook: the parent hook runs first.
Host_async_will_remove_from_hass_super_first(self, s) ==
    LET s1 == CoordinatorEntity_async_will_remove_from_hass(self, s)
        cmd_key == self.entity_description.cmd_key
    IN IF cmd_key # None
       THEN async_unregister_update_cmd(s1, Value(cmd_key), None)
       ELSE s1

Host_async_will_remove_from_hass(self, s) ==
    LET cmd_key == self.entity_description.cmd_key
        s1 == IF cmd_key # None
              THEN async_unregister_update_cmd(s, Value(cmd_key), None)
              ELSE s
    IN CoordinatorEntity_async_will_remove_from_hass(self, s1)

\* Faulty variant of the channel attach hook: its own register call is made
\* before the chained hooks run.
Channel_async_added_to_hass_own_first(self, s) ==
    LET cmd_key == self.entity_description.cmd_key
        s1 == IF cmd_key # None
              THEN async_register_update_cmd(s, Value(cmd_key), self._channel)
              ELSE s
    IN Host_async_added_to_hass(self, s1)

\* Faulty variant of the channel attach hook: it chains past the host hook,
\* straight to the parent hook.
Channel_async_added_to_hass_no_super(self, s) ==
    LET s1 == CoordinatorEntity_async_added_to_hass(self, s)
        cmd_key == self.entity_description.cmd_key
    IN IF cmd_key # None
       THEN async_register_update_cmd(s1, Value(cmd_key), self._channel)
       ELSE s1

Channel_async_added_to_hass(self, s) ==
    LET s1 == Host_async_added_to_hass(self, s)
        cmd_key == self.entity_description.cmd_key
    IN IF cmd_key # None
       THEN async_register_update_cmd(s1, Value(cmd_key), self._channel)
       ELSE s1

\* Faulty variant of the channel remove hook: the channel argument is
\* forgotten.
Channel_async_will_remove_from_hass_no_channel(self, s) ==
    LET cmd_key == self.entity_description.cmd_key
        s1 == IF cmd_key # None
              THEN async_unregister_update_cmd(s, Value(cmd_key), None)
              ELSE s
    IN Host_async_will_remove_from_hass(self, s1)

Channel_async_will_remove_from_hass(self, s) ==
    LET cmd_key == self.entity_description.cmd_key
        s1 == IF cmd_key # None
              THEN async_unregister_update_cmd(s, Value(cmd_key), self._channel)
              ELSE s
    IN Host_async_will_remove_from_hass(self, s1)

(***************************************************************************)
(* Method dispatch on the entity's class.                                  *)
(***************************************************************************)
async_added_to_hass(self, s) ==
    IF self.cls = "ReolinkChannelCoordinatorEntity"
    THEN Channel_async_added_to_hass(self, s)
    ELSE Host_async_added_to_hass(self, s)

async_will_remove_from_hass(self, s) ==
    IF self.cls = "ReolinkChannelCoordinatorEntity"
    THEN Channel_async_will_remove_from_hass(self, s)
    ELSE Host_async_will_remove_from_hass(self, s)

(***************************************************************************)
(* State and actions.                                                      *)
(***************************************************************************)
NoEntity == [state |-> "none"]
NoRead == [entity |-> 0, value |-> FALSE]

Exists(i) == entities[i].state # "none"

LifecycleDescriptions ==
    {ReolinkChannelEntityDescription("record", c) :
        c \in {None} \cup {Some(k) : k \in CmdKeys}}

AvailabilityDescriptions ==
    {ReolinkChannelEntityDescription("record", Some("GetRec"))}

IdentityDescriptions ==
    {ReolinkChannelEntityDescription(k, None) : k \in Keys}

Init ==
    /\ host = Host("RLN8-410", TRUE)
    /\ coordinator = CoordinatorState
    /\ entities = [i \in Slots |-> NoEntity]
    /\ available_read = NoRead

InitIdentity ==
    /\ host \in {Host(m, n) : m \in Models, n \in BOOLEAN}
    /\ coordinator = CoordinatorState
    /\ entities = [i \in Slots |-> NoEntity]
    /\ available_read = NoRead

Fresh(attrs) == attrs @@ [state |-> "unattached", calls |-> <<>>]

ConstructHostEntity(i, entity_description) ==
    /\ entities[i].state \in {"none", "removed"}
    /\ entities' = [entities EXCEPT ![i] =
            Fresh(ReolinkHostCoordinatorEntity_init(host, entity_description))]
    /\ UNCHANGED <<host, coordinator, available_read>>

ConstructChannelEntity(i, entity_description, channel) ==
    /\ entities[i].state \in {"none", "removed"}
    /\ entities' = [entities EXCEPT ![i] =
            Fresh(ReolinkChannelCoordinatorEntity_init(host, entity_description, channel))]
    /\ UNCHANGED <<host, coordinator, available_read>>

AddedToHass(i) ==
    /\ entities[i].state = "unattached"
    /\ LET s == async_added_to_hass(entities[i],
                    [host |-> host, calls |-> entities[i].calls])
       IN /\ host' = s.host
          /\ entities' = [entities EXCEPT ![i].state = "attached",
                                          ![i].calls = s.calls]
    /\ UNCHANGED <<coordinator, available_read>>

WillRemoveFromHass(i) ==
    /\ entities[i].state = "attached"
    /\ LET s == async_will_remove_from_hass(entities[i],
                    [host |-> host, calls |-> entities[i].calls])
       IN /\ host' = s.host
          /\ entities' = [entities EXCEPT ![i].state = "removed",
                                          ![i].calls = s.calls]
    /\ UNCHANGED <<coordinator, available_read>>

SessionChange ==
    /\ host' = [host EXCEPT !.api.session_active = ~@]
    /\ UNCHANGED <<coordinator, entities, available_read>>

CoordinatorUpdate ==
    /\ coordinator' = [coordinator EXCEPT !.last_update_success = ~@]
    /\ UNCHANGED <<host, entities, available_read>>

ReadAvailable(i) ==
    /\ Exists(i)
    /\ available_read' =
            [entity |-> i, value |-> available(entities[i], host, coordinator)]
    /\ UNCHANGED <<host, coordinator, entities>>

Next ==
    \/ \E i \in Slots, d \in LifecycleDescriptions : ConstructHostEntity(i, d)
    \/ \E i \in Slots, d \in LifecycleDescriptions, ch \in Channels :
            ConstructChannelEntity(i, d, ch)
    \/ \E i \in Slots : AddedToHass(i)
    \/ \E i \in Slots : WillRemoveFromHass(i)

Spec == Init /\ [][Next]_vars

NextAvailability ==
    \/ \E i \in Slots, d \in AvailabilityDescriptions : ConstructHostEntity(i, d)
    \/ \E i \in Slots, d \in AvailabilityDescriptions, ch \in Channels :
            ConstructChannelEntity(i, d, ch)
    \/ SessionChange
    \/ CoordinatorUpdate
    \/ \E i \in Slots : ReadAvailable(i)

SpecAvailability == Init /\ [][NextAvailability]_vars

NextIdentity ==
    \/ \E i \in Slots, d \in IdentityDescriptions : ConstructHostEntity(i, d)
    \/ \E i \in Slots, d \in IdentityDescriptions, ch \in Channels :
            ConstructChannelEntity(i, d, ch)

SpecIdentity == InitIdentity /\ [][NextIdentity]_vars

(***************************************************************************)
(* Vocabulary of the properties.                                           *)
(***************************************************************************)
Live == {i \in Slots : Exists(i)}
IsChannel(e) == e.cls = "ReolinkChannelCoordinatorEntity"
IsHost(e) == e.cls = "ReolinkHostCoordinatorEntity"
Attached(e) == e.state = "attached"
Removed(e) == e.state = "removed"

\* The command keys the descriptor declares non-null.
Declared(e) ==
    IF e.entity_description.cmd_key = None
    THEN {}
    ELSE {Value(e.entity_description.cmd_key)}

\* The positions in e.calls of the calls of kind op.
At(e, op) == {n \in DOMAIN e.calls : e.calls[n].op = op}

\* The (key, channel scope) pairs of the calls of kind op, and their keys.
Pairs(e, op) == {<<Value(e.calls[n].cmd), e.calls[n].channel>> : n \in At(e, op)}
KeysOf(e, op) == {p[1] : p \in Pairs(e, op)}

\* How many calls of kind op carry key k; how many carry key k and scope c.
PerKey(e, op, k) ==
    Cardinality({n \in At(e, op) : Value(e.calls[n].cmd) = k})
PerPair(e, op, k, c) ==
    Cardinality({n \in At(e, op) :
        Value(e.calls[n].cmd) = k /\ e.calls[n].channel = c})

\* C1 as stated: attach registers exactly the declared keys, remove
\* unregisters exactly those keys, and no key is unregistered more than once
\* in one attach.
C1_EachKeyUnregisteredOnce ==
    \A i \in Live :
        LET e == entities[i] IN
        /\ (Attached(e) \/ Removed(e)) => KeysOf(e, "register") = Declared(e)
        /\ Removed(e) => KeysOf(e, "unregister") = Declared(e)
        /\ \A k \in CmdKeys : PerKey(e, "unregister", k) <= 1

\* C1 amended: attach registers exactly the declared keys (nothing before the
\* attach, nothing when cmd_key is None), remove unregisters exactly the
\* (key, channel scope) pairs the attach registered, and no pair is registered
\* or unregistered more than once in one attach.
C1_PairedOncePerScope ==
    \A i \in Live :
        LET e == entities[i] IN
        /\ e.state = "unattached" =>
                Pairs(e, "register") = {} /\ Pairs(e, "unregister") = {}
        /\ (Attached(e) \/ Removed(e)) => KeysOf(e, "register") = Declared(e)
        /\ Attached(e) => Pairs(e, "unregister") = {}
        /\ Removed(e) =>
                /\ KeysOf(e, "unregister") = Declared(e)
                /\ Pairs(e, "unregister") = Pairs(e, "register")
        /\ \A k \in CmdKeys, c \in Scopes :
                /\ PerPair(e, "register", k, c) <= 1
                /\ PerPair(e, "unregister", k, c) <= 1

C1_Witness ==
    \E i, j \in Live :
        /\ IsChannel(entities[i]) /\ Removed(entities[i])
        /\ Declared(entities[i]) # {}
        /\ IsHost(entities[j]) /\ Removed(entities[j])
        /\ Declared(entities[j]) = {}

\* C2 as stated: a host entity registers (key) and a channel entity registers
\* (key, channel), one or the other, and remove unregisters the same.
C2_OneScopePerEntity ==
    \A i \in Live :
        LET e == entities[i]
            own == {<<k, e._channel>> : k \in Declared(e)}
        IN /\ (Attached(e) \/ Removed(e)) => Pairs(e, "register") = own
           /\ Removed(e) => Pairs(e, "unregister") = own

\* C2 amended: a host entity registers (key) without a channel; a channel
\* entity registers (key, channel) with its own channel and, through the host
\* hook it chains to, (key) without a channel as well; remove unregisters the
\* same key in the same scopes.
C2_ScopesOfEntity ==
    \A i \in Live :
        LET e == entities[i]
            scopes == IF IsChannel(e) THEN {None, e._channel} ELSE {None}
            all == {<<k, c>> : k \in Declared(e), c \in scopes}
        IN /\ (Attached(e) \/ Removed(e)) => Pairs(e, "register") = all
           /\ Removed(e) => Pairs(e, "unregister") = all

C2_Witness ==
    \E i, j \in Live :
        /\ IsChannel(entities[i]) /\ Attached(entities[i])
        /\ entities[i]._channel = Some(1)
        /\ Declared(entities[i]) # {}
        /\ IsHost(entities[j]) /\ Removed(entities[j])
        /\ Declared(entities[j]) # {}

\* C3: every register call comes after the parent attach hook has run, and
\* every unregister call comes before the parent remove hook runs.
C3_OrderAroundParentHooks ==
    \A i \in Live :
        LET e == entities[i] IN
        /\ \A m \in At(e, "register") : \E n \in At(e, "super_added") : n < m
        /\ \A m \in At(e, "unregister") : \A n \in At(e, "super_removed") : m < n
        /\ (Attached(e) \/ Removed(e)) => Cardinality(At(e, "super_added")) = 1
        /\ Removed(e) => Cardinality(At(e, "super_removed")) = 1

C3_Witness ==
    \E i, j \in Live :
        /\ i # j
        /\ IsHost(entities[i]) /\ Removed(entities[i])
        /\ IsChannel(entities[j]) /\ Removed(entities[j])
        /\ Declared(entities[i]) # {} /\ Declared(entities[j]) # {}

\* C9: no count of the interest set is negative, every (key, scope) of an
\* attached entity has a count of at least 1, and with no entity attached
\* every count is zero.
C9_InterestSetBalanced ==
    /\ \A p \in DOMAIN host.update_cmd : host.update_cmd[p] >= 0
    /\ \A i \in Live :
        LET e == entities[i] IN
        Attached(e) =>
            \A k \in Declared(e) :
                /\ host.update_cmd[<<k, None>>] >= 1
                /\ IsChannel(e) => host.update_cmd[<<k, e._channel>>] >= 1
    /\ (\A i \in Live : ~Attached(entities[i])) =>
            \A p \in DOMAIN host.update_cmd : host.update_cmd[p] = 0

C9_Witness ==
    /\ \A i \in Slots : Exists(i) /\ Removed(entities[i]) /\ IsChannel(entities[i])
    /\ \A i, j \in Slots :
            /\ Declared(entities[i]) # {}
            /\ Declared(entities[i]) = Declared(entities[j])

\* C10: a channel entity with a command key calls, on attach, register(key)
\* and then register(key, channel), and on remove unregister(key, channel)
\* and then unregister(key): the attach sequence mirrored.
C10_ChannelChainMirrored ==
    \A i \in Live :
        LET e == entities[i]
            k == e.entity_description.cmd_key
            attach == << [op |-> "super_added", cmd |-> None, channel |-> None],
                         [op |-> "register", cmd |-> k, channel |-> None],
                         [op |-> "register", cmd |-> k, channel |-> e._channel] >>
            remove == << [op |-> "unregister", cmd |-> k, channel |-> e._channel],
                         [op |-> "unregister", cmd |-> k, channel |-> None],
                         [op |-> "super_removed", cmd |-> None, channel |-> None] >>
        IN (IsChannel(e) /\ k # None) =>
            /\ Attached(e) => e.calls = attach
            /\ Removed(e) => e.calls = attach \o remove

C10_Witness ==
    \E i \in Live :
        /\ IsChannel(entities[i]) /\ Removed(entities[i])
        /\ entities[i]._channel = Some(1)
        /\ entities[i].entity_description.cmd_key = Some("GetEnc")

\* C4: a read of available returns TRUE iff the session flag and the
\* coordinator's availability are both TRUE, and changes nothing else.
C4_AvailableIsConjunction ==
    [][available_read' # available_read =>
        /\ available_read'.value =
                (host.api.session_active /\ coordinator.last_update_success)
        /\ ~host.api.session_active => ~available_read'.value
        /\ ~coordinator.last_update_success => ~available_read'.value
        /\ UNCHANGED <<host, coordinator, entities>>]_vars

C4_Witness ==
    /\ available_read.entity \in Live
    /\ IsChannel(entities[available_read.entity])
    /\ available_read.value = FALSE
    /\ host.api.session_active
    /\ ~coordinator.last_update_success

(***************************************************************************)
(* Identity.                                                               *)
(***************************************************************************)
ChannelEntities == {i \in Live : IsChannel(entities[i])}
HostEntities == {i \in Live : IsHost(entities[i])}
DualLens == host.api.model \in DUAL_LENS_MODELS

\* What tells two entities apart: scope, channel index and descriptor key.
Identity(e) == <<e.cls, e._channel, e.entity_description.key>>

\* The effective channel of a channel entity: its channel after dual-lens
\* folding.
EffectiveChannel(e) == IF DualLens THEN 0 ELSE Value(e._channel)

\* C5: the unique id is "<uid>_<key>" for a host entity and
\* "<uid>_<channel>_<key>" for a channel entity, and two entities that differ
\* in scope, channel index or descriptor key never have the same unique id.
C5_UniqueIdNeverCollides ==
    /\ \A i \in HostEntities :
            entities[i]._attr_unique_id =
                host.unique_id \o "_" \o entities[i].entity_description.key
    /\ \A i \in ChannelEntities :
            entities[i]._attr_unique_id =
                host.unique_id \o "_" \o str(Value(entities[i]._channel))
                    \o "_" \o entities[i].entity_description.key
    /\ \A i, j \in Live :
            Identity(entities[i]) # Identity(entities[j]) =>
                entities[i]._attr_unique_id # entities[j]._attr_unique_id

\* C6: on a dual-lens model the device-identity record of a channel entity
\* is the record of channel 0, whatever channel was requested, on an NVR and
\* on a single camera alike.
C6_DualLensFoldsToChannelZero ==
    DualLens =>
        /\ \A i \in ChannelEntities :
                LET info == entities[i]._attr_device_info IN
                host.api.is_nvr =>
                    /\ info.identifiers = {<<DOMAIN_, host.unique_id \o "_ch0">>}
                    /\ info.name = host.api.camera_name[0]
                    /\ info.model = host.api.camera_model[0]
                    /\ info.sw_version = host.api.camera_sw_version[0]
        /\ \A i, j \in ChannelEntities :
                entities[i]._attr_device_info = entities[j]._attr_device_info

C6_Witness ==
    /\ DualLens
    /\ host.api.is_nvr
    /\ \E i, j \in ChannelEntities :
            entities[i]._channel = Some(0) /\ entities[j]._channel = Some(1)

\* C7: on a directly connected camera (is_nvr false) the device-identity
\* record of a channel entity equals the record of a host entity of the same
\* device handle, for every channel and every model.
C7_SingleCameraReusesHostIdentity ==
    ~host.api.is_nvr =>
        \A i \in ChannelEntities :
            LET info == entities[i]._attr_device_info IN
            /\ info.identifiers = {<<DOMAIN_, host.unique_id>>}
            /\ "via_device" \notin DOMAIN info
            /\ info.name = host.api.nvr_name
            /\ \A j \in HostEntities : info = entities[j]._attr_device_info

C7_Witness ==
    /\ ~host.api.is_nvr
    /\ DualLens
    /\ \E i \in ChannelEntities, j \in HostEntities :
            entities[i]._channel = Some(1)

\* C8: on an NVR the device identifier of a channel entity is
\* "<uid>_ch<effective channel>", the record names the NVR (DOMAIN, uid) as
\* via_device, and two channel entities have the same identifier iff their
\* effective channels are equal.
C8_NvrChannelIdentifier ==
    host.api.is_nvr =>
        /\ \A i \in ChannelEntities :
                LET info == entities[i]._attr_device_info IN
                /\ info.identifiers =
                        {<<DOMAIN_, host.unique_id \o "_ch"
                                        \o str(EffectiveChannel(entities[i]))>>}
                /\ info.via_device = <<DOMAIN_, host.unique_id>>
        /\ \A i, j \in ChannelEntities :
                (entities[i]._attr_device_info.identifiers
                        = entities[j]._attr_device_info.identifiers)
                    <=> (EffectiveChannel(entities[i]) = EffectiveChannel(entities[j]))

C8_Witness ==
    /\ host.api.is_nvr
    /\ ~DualLens
    /\ \E i, j \in ChannelEntities :
            entities[i]._channel = Some(0) /\ entities[j]._channel = Some(1)

====
